---- MODULE Spec2Model ----
(***************************************************************************)
(* Model of portalocker/utils.py: the Lock acquire/release engine, the     *)
(* reentrant RLock built on it, and the file-based BoundedSemaphore.       *)
(*                                                                         *)
(* Time is a discrete monotonic clock `now`, in ticks of one second.  Each *)
(* Lock / RLock instance and each semaphore participant is a sequential    *)
(* caller of its own object; the callers interleave with each other and    *)
(* with the clock at every call, at every pass of a retry loop and at      *)
(* every sleep.  The advisory lock primitive (portalocker.lock / unlock)   *)
(* is the exclusive, non-blocking lock of an open file handle.             *)
(***************************************************************************)
EXTENDS Integers, FiniteSets, Sequences, TLC

\* ------------------------------------------------------------------ bounds
NumLocks == 2
MaxTime == 2
MaxTimeout == 2
MaxHandles == 4
MaxDepth == 3
\* the check_interval the instances are configured with
CheckInterval == 1
NumParticipants == 2
Maximum == 2
NumWriters == 2
MaxLen == 1

\* --------------------------------------------------------------- constants
\* utils.py:15
DEFAULT_TIMEOUT == 5

\* Python's None for a timeout / for a file handle / for an exception
NoneT == -1
NoHandle == 0
NoExc == 0
\* a closed handle refers to no file
NoFile == -1
\* self.lock = None
NoLock == 0

Locks == 1..NumLocks
\* the callers of one BoundedSemaphore name and directory, each with its
\* own instance
Participants == 1..NumParticipants
Handles == 1..MaxHandles
\* the single path all Lock / RLock instances are configured with
LockPath == 0

\* the callers of open_atomic, each with a filename of its own
Writers == 1..NumWriters
\* a path that names no file, among file contents
Absent == <<NoFile>>

TimeoutArgs == {NoneT, 0, MaxTimeout}
CfgTimeouts == {NoneT, MaxTimeout}
FailArgs == {"None", "True", "False"}

VARIABLES
    now,          \* current_time()
    handleFile,   \* OS: handle -> file it is open on, NoFile when closed
    locked,       \* OS: handles that hold the advisory lock of their file
    handleOwner,  \* which caller opened the handle (0 when closed)
    kind,         \* "Lock" or "RLock": the class of the instances
    cfgTimeout,   \* self.timeout
    cfgFail,      \* self.fail_when_locked
    fh,           \* self.fh
    pc,           \* position of the caller inside Lock.acquire
    lfh,          \* acquire's local fh
    timeout_end,  \* acquire's local timeout_end
    exception,    \* acquire's local exception (NoExc, or the attempt it came from)
    failL,        \* acquire's local fail_when_locked
    zeroL,        \* acquire's local timeout is 0 (not timeout)
    wake,         \* end of the current time.sleep
    attempts,     \* calls of _get_lock made by the current acquire
    sleeps,       \* calls of time.sleep made by the current acquire
    result,       \* how the caller's last call ended
    acquire_count,\* RLock._acquire_count
    balance,      \* RLock calls that returned: acquires minus releases
    semTimeout,   \* BoundedSemaphore: self.timeout
    semLock,      \* self.lock: NoLock, or the candidate file of the Lock
    semFh,        \* self.lock.fh
    spc,          \* position of the caller inside BoundedSemaphore.acquire
    sk,           \* try_lock: index of the next candidate in filenames
    stimeout,     \* acquire's local timeout
    stimeout_end, \* acquire's local timeout_end
    swake,        \* end of the current time.sleep
    spasses,      \* calls of try_lock made by the current acquire
    ssleeps,      \* calls of time.sleep made by the current acquire
    sresult,      \* how the caller's last call ended
    everReleased, \* some release has returned
    passFree,     \* a candidate was unlocked when the caller's pass began
                  \* and no other caller has locked a candidate since
    maximum,      \* BoundedSemaphore: self.maximum
    mode,         \* Lock: self.mode
    truncate,     \* Lock: self.truncate
    flags,        \* Lock: self.flags, "NB" (LOCK_EX | LOCK_NB) or "B" (LOCK_EX)
    warned,       \* a warning was issued for the instance
    inode,        \* the file the lock path names, NoFile when it is absent
    content,      \* the file the lock path names has data (1) or is
                  \* empty (0)
    returned,     \* the handle the caller's last acquire returned
    exited,       \* the caller's process has terminated
    apc,          \* open_atomic: position of the writer
    awritten,     \* open_atomic: what the body has written to temp_fh
    atemp,        \* open_atomic: the temp file, NoFile when it is absent
    atarget,      \* open_atomic: the file at filename, NoFile when absent
    aresult       \* open_atomic: how the writer's scope ended

osVars == <<handleFile, locked, handleOwner>>
lockVars == <<kind, cfgTimeout, cfgFail, fh, pc, lfh, timeout_end, exception,
              failL, zeroL, wake, attempts, sleeps, result, acquire_count,
              balance>>
semVars == <<semTimeout, maximum, semLock, semFh, spc, sk, stimeout, stimeout_end,
             swake, spasses, ssleeps, sresult, everReleased, passFree>>
extVars == <<mode, truncate, flags, warned, inode, content, returned, exited>>
atomVars == <<apc, awritten, atemp, atarget, aresult>>
vars == <<now, osVars, lockVars, semVars, extVars, atomVars>>

\* ------------------------------------------------- the OS (file handles)
OpenHandles == {h \in Handles : handleFile[h] # NoFile}

\* open(): the lowest free descriptor
NewHandle == CHOOSE h \in Handles \ OpenHandles :
                 \A g \in Handles \ OpenHandles : h <= g

\* portalocker.lock(fh, LOCK_EX | LOCK_NB) succeeds unless another open
\* handle holds the lock of the same file
CanLockFile(f, h) == \A g \in locked : g = h \/ handleFile[g] # f

CanLock(h) == CanLockFile(handleFile[h], h)

\* ------------------------------------------------------- Lock: helpers
\* utils.py:135-138
ResolveTimeout(arg, cfg) ==
    LET t == IF arg = NoneT THEN cfg ELSE arg
    IN  IF t = NoneT THEN 0 ELSE t

\* utils.py:143-144
ResolveFail(arg, cfg) ==
    IF arg = "None" THEN cfg ELSE (arg = "True")

\* utils.py:164: while timeout_end > current_time()
LoopCond(te, t) == te > t

\* the locals of acquire are gone once it has returned or raised; the
\* counts of its attempts and sleeps stay until the next acquire
ClearLocals(i) ==
    /\ lfh' = [lfh EXCEPT ![i] = NoHandle]
    /\ timeout_end' = [timeout_end EXCEPT ![i] = 0]
    /\ exception' = [exception EXCEPT ![i] = NoExc]
    /\ failL' = [failL EXCEPT ![i] = FALSE]
    /\ zeroL' = [zeroL EXCEPT ![i] = FALSE]
    /\ wake' = [wake EXCEPT ![i] = 0]

\* bookkeeping of the RLock calls that returned normally
Count(i, d) ==
    balance' = IF kind = "RLock" THEN [balance EXCEPT ![i] = @ + d]
               ELSE balance

\* ---------------------------------------------------------------- Init
InitOS ==
    /\ now = 0
    /\ handleFile = [h \in Handles |-> NoFile]
    /\ locked = {}
    /\ handleOwner = [h \in Handles |-> 0]

\* Lock.__init__ / RLock.__init__ (utils.py:122-130, 239).  The instances
\* are constructed alike, with a timeout in ts and a fail_when_locked in fs;
\* every effective timeout and failure policy is reachable through the
\* arguments of acquire.
InitLocks(k, ts, fs) ==
    /\ kind = k
    /\ \E t \in ts : cfgTimeout = [i \in Locks |-> t]
    /\ \E f \in fs : cfgFail = [i \in Locks |-> f]
    /\ fh = [i \in Locks |-> NoHandle]
    /\ pc = [i \in Locks |-> "idle"]
    /\ lfh = [i \in Locks |-> NoHandle]
    /\ timeout_end = [i \in Locks |-> 0]
    /\ exception = [i \in Locks |-> NoExc]
    /\ failL = [i \in Locks |-> FALSE]
    /\ zeroL = [i \in Locks |-> FALSE]
    /\ wake = [i \in Locks |-> 0]
    /\ attempts = [i \in Locks |-> 0]
    /\ sleeps = [i \in Locks |-> 0]
    /\ result = [i \in Locks |-> "none"]
    /\ acquire_count = [i \in Locks |-> 0]
    /\ balance = [i \in Locks |-> 0]

\* BoundedSemaphore.__init__ (utils.py:298-304)
InitSem(ts, ms) ==
    /\ \E t \in ts : semTimeout = [p \in Participants |-> t]
    /\ \E m \in ms : maximum = m
    /\ semLock = [p \in Participants |-> NoLock]
    /\ semFh = [p \in Participants |-> NoHandle]
    /\ spc = [p \in Participants |-> "idle"]
    /\ sk = [p \in Participants |-> 0]
    /\ stimeout = [p \in Participants |-> 0]
    /\ stimeout_end = [p \in Participants |-> 0]
    /\ swake = [p \in Participants |-> 0]
    /\ spasses = [p \in Participants |-> 0]
    /\ ssleeps = [p \in Participants |-> 0]
    /\ sresult = [p \in Participants |-> "none"]
    /\ everReleased = FALSE
    /\ passFree = [p \in Participants |-> FALSE]

\* a Lock.__init__ that passes a 'w' mode on to open()
InitMode_KeepsW(m) == [mode |-> m, truncate |-> FALSE]

\* Lock.__init__ (utils.py:116-120): a 'w' mode is rewritten to 'a' and
\* remembered as truncate
InitMode(m) ==
    IF m = "w" THEN [mode |-> "a", truncate |-> TRUE]
    ELSE [mode |-> m, truncate |-> FALSE]

\* the rest of Lock.__init__ (utils.py:116-129) and the file system: the
\* instances are constructed alike, with a mode in ms and flags in fls; the
\* lock path names the file ino
InitExt(ms, fls, ino) ==
    /\ \E m \in ms :
           /\ mode = [i \in Locks |-> InitMode(m).mode]
           /\ truncate = [i \in Locks |-> InitMode(m).truncate]
    /\ \E f \in fls : flags = [i \in Locks |-> f]
    /\ warned = [i \in Locks |-> FALSE]
    /\ inode = ino
    /\ content = 0
    /\ returned = [i \in Locks |-> NoHandle]
    /\ exited = [i \in Locks |-> FALSE]

\* no open_atomic scope has been entered
InitAtomic ==
    /\ apc = [w \in Writers |-> "idle"]
    /\ awritten = [w \in Writers |-> <<>>]
    /\ atemp = [w \in Writers |-> Absent]
    /\ atarget = [w \in Writers |-> Absent]
    /\ aresult = [w \in Writers |-> "none"]

\* Lock instances built with timeout=None and mode 'a': every acquire is
\* given its own timeout or falls back to zero
Init ==
    /\ InitOS
    /\ InitLocks("Lock", {NoneT}, {FALSE})
    /\ InitSem({NoneT}, {Maximum})
    /\ InitExt({"a"}, {"NB"}, LockPath)
    /\ InitAtomic

\* --------------------------------------------------------------- clock
Tick ==
    /\ now < MaxTime
    /\ now' = now + 1
    /\ UNCHANGED <<osVars, lockVars, semVars, extVars, atomVars>>

\* ------------------------------------------------------- Lock.acquire
\* an RLock.acquire that forgets to count
Returned_NoCount(i) == UNCHANGED acquire_count

\* what follows the return of Lock.acquire in its caller: RLock.acquire
\* counts the acquisition (utils.py:248), a plain Lock does nothing
Returned(i) ==
    IF kind = "RLock"
    THEN acquire_count' = [acquire_count EXCEPT ![i] = @ + 1]
    ELSE UNCHANGED acquire_count

\* an acquire on a held instance that opens the file once more
AcquireHeld_Reopens(i) ==
    /\ pc[i] = "idle"
    /\ fh[i] # NoHandle
    /\ Handles \ OpenHandles # {}
    /\ handleFile' = [handleFile EXCEPT ![NewHandle] = inode]
    /\ handleOwner' = [handleOwner EXCEPT ![NewHandle] = i]
    /\ result' = [result EXCEPT ![i] = "fh"]
    /\ attempts' = [attempts EXCEPT ![i] = 0]
    /\ sleeps' = [sleeps EXCEPT ![i] = 0]
    /\ returned' = [returned EXCEPT ![i] = NewHandle]
    /\ Returned(i)
    /\ Count(i, 1)
    /\ UNCHANGED <<semVars, atomVars>>
    /\ UNCHANGED <<mode, truncate, flags, warned, inode, content, exited>>
    /\ UNCHANGED <<now, locked, kind, cfgTimeout, cfgFail, fh, pc, lfh,
                   timeout_end, exception, failL, zeroL, wake>>

\* utils.py:146-149: the instance already has a file handle
AcquireHeld(i) ==
    /\ pc[i] = "idle"
    /\ fh[i] # NoHandle
    /\ result' = [result EXCEPT ![i] = "fh"]
    /\ attempts' = [attempts EXCEPT ![i] = 0]
    /\ sleeps' = [sleeps EXCEPT ![i] = 0]
    /\ returned' = [returned EXCEPT ![i] = fh[i]]
    /\ Returned(i)
    /\ Count(i, 1)
    /\ UNCHANGED <<semVars, atomVars>>
    /\ UNCHANGED <<mode, truncate, flags, warned, inode, content, exited>>
    /\ UNCHANGED <<now, osVars, kind, cfgTimeout, cfgFail, fh, pc, lfh,
                   timeout_end, exception, failL, zeroL, wake>>

\* open(filename, mode) (utils.py:203) truncates the file when the mode is
\* a 'w' mode, and creates the file when the path names none
OpenTruncates(m) == m = "w"

\* the file a creating open() makes: one that no handle is open on
NewFile ==
    CHOOSE f \in LockPath..(LockPath + MaxHandles) :
        /\ \A h \in Handles : handleFile[h] # f
        /\ \A g \in LockPath..(LockPath + MaxHandles) :
               (\A h \in Handles : handleFile[h] # g) => f <= g

\* utils.py:135-163: resolve the arguments, open the file, set the deadline
AcquireOpen(i, timeout, fail) ==
    /\ pc[i] = "idle"
    /\ fh[i] = NoHandle
    /\ Handles \ OpenHandles # {}
    /\ inode' = (IF inode = NoFile THEN NewFile ELSE inode)
    /\ content' = (IF inode = NoFile \/ OpenTruncates(mode[i]) THEN 0
                   ELSE content)
    /\ handleFile' = [handleFile EXCEPT ![NewHandle] = inode']
    /\ handleOwner' = [handleOwner EXCEPT ![NewHandle] = i]
    /\ returned' = [returned EXCEPT ![i] = NoHandle]
    /\ lfh' = [lfh EXCEPT ![i] = NewHandle]
    /\ timeout_end' = [timeout_end EXCEPT ![i] =
           now + ResolveTimeout(timeout, cfgTimeout[i])]
    /\ zeroL' = [zeroL EXCEPT ![i] =
           ResolveTimeout(timeout, cfgTimeout[i]) = 0]
    /\ failL' = [failL EXCEPT ![i] = ResolveFail(fail, cfgFail[i])]
    /\ exception' = [exception EXCEPT ![i] = NoExc]
    /\ attempts' = [attempts EXCEPT ![i] = 0]
    /\ sleeps' = [sleeps EXCEPT ![i] = 0]
    /\ result' = [result EXCEPT ![i] = "running"]
    /\ pc' = [pc EXCEPT ![i] = "loop"]
    /\ UNCHANGED <<semVars, atomVars>>
    /\ UNCHANGED <<mode, truncate, flags, warned, exited>>
    /\ UNCHANGED <<now, locked, kind, cfgTimeout, cfgFail, fh, wake,
                   acquire_count, balance>>

\* a failure path that forgets to close the handle
TryClose_Leak(h) == UNCHANGED <<handleFile, handleOwner, locked>>

\* try_close (utils.py:154-159); closing a handle drops its lock
TryClose(h) ==
    /\ handleFile' = [handleFile EXCEPT ![h] = NoFile]
    /\ handleOwner' = [handleOwner EXCEPT ![h] = 0]
    /\ locked' = locked \ {h}

\* _prepare_fh (utils.py:213-224): fh.truncate(0) empties the file the
\* handle is open on
PrepareFh(i, h) ==
    content' = IF truncate[i] /\ handleFile[h] = inode THEN 0 ELSE content

\* utils.py:164-168, 188-192: the lock is taken, the handle is prepared and
\* kept
AcquireGetLock(i) ==
    /\ pc[i] = "loop"
    /\ LoopCond(timeout_end[i], now)
    /\ CanLock(lfh[i])
    /\ locked' = locked \cup {lfh[i]}
    /\ PrepareFh(i, lfh[i])
    /\ returned' = [returned EXCEPT ![i] = lfh[i]]
    /\ UNCHANGED <<mode, truncate, flags, warned, inode, exited>>
    /\ fh' = [fh EXCEPT ![i] = lfh[i]]
    /\ result' = [result EXCEPT ![i] = "fh"]
    /\ pc' = [pc EXCEPT ![i] = "idle"]
    /\ attempts' = [attempts EXCEPT ![i] = @ + 1]
    /\ ClearLocals(i)
    /\ Returned(i)
    /\ Count(i, 1)
    /\ UNCHANGED <<semVars, atomVars>>
    /\ UNCHANGED <<now, handleFile, handleOwner, kind, cfgTimeout, cfgFail,
                   sleeps>>

\* utils.py:169-178: contention with fail_when_locked
AcquireFailFast(i) ==
    /\ pc[i] = "loop"
    /\ LoopCond(timeout_end[i], now)
    /\ ~CanLock(lfh[i])
    /\ flags[i] = "NB"
    /\ failL[i]
    /\ TryClose(lfh[i])
    /\ UNCHANGED extVars
    /\ result' = [result EXCEPT ![i] = "AlreadyLocked"]
    /\ pc' = [pc EXCEPT ![i] = "idle"]
    /\ attempts' = [attempts EXCEPT ![i] = @ + 1]
    /\ ClearLocals(i)
    /\ UNCHANGED <<semVars, atomVars>>
    /\ UNCHANGED <<now, kind, cfgTimeout, cfgFail, fh, sleeps,
                   acquire_count, balance>>

\* utils.py:169-181: contention without fail_when_locked, go to sleep
AcquireContended(i) ==
    /\ pc[i] = "loop"
    /\ LoopCond(timeout_end[i], now)
    /\ ~CanLock(lfh[i])
    /\ flags[i] = "NB"
    /\ ~failL[i]
    /\ UNCHANGED extVars
    /\ exception' = [exception EXCEPT ![i] = attempts[i] + 1]
    /\ attempts' = [attempts EXCEPT ![i] = @ + 1]
    /\ sleeps' = [sleeps EXCEPT ![i] = @ + 1]
    /\ wake' = [wake EXCEPT ![i] = now + CheckInterval]
    /\ pc' = [pc EXCEPT ![i] = "sleep"]
    /\ UNCHANGED <<semVars, atomVars>>
    /\ UNCHANGED <<now, osVars, kind, cfgTimeout, cfgFail, fh, lfh,
                   timeout_end, failL, zeroL, result, acquire_count,
                   balance>>

\* time.sleep(check_interval) returns (utils.py:181)
AcquireWake(i) ==
    /\ pc[i] = "sleep"
    /\ now >= wake[i]
    /\ pc' = [pc EXCEPT ![i] = "loop"]
    /\ UNCHANGED <<semVars, atomVars, extVars>>
    /\ UNCHANGED <<now, osVars, kind, cfgTimeout, cfgFail, fh, lfh,
                   timeout_end, exception, failL, zeroL, wake, attempts,
                   sleeps, result, acquire_count, balance>>

\* utils.py:164, 183-186: the loop condition is false, the else branch runs
AcquireTimedOut(i) ==
    /\ pc[i] = "loop"
    /\ ~LoopCond(timeout_end[i], now)
    /\ TryClose(lfh[i])
    /\ result' = [result EXCEPT ![i] = "LockException"]
    /\ pc' = [pc EXCEPT ![i] = "idle"]
    /\ ClearLocals(i)
    /\ UNCHANGED <<semVars, atomVars, extVars>>
    /\ UNCHANGED <<now, kind, cfgTimeout, cfgFail, fh, attempts, sleeps,
                   acquire_count, balance>>

\* ------------------------------------------------------- Lock.release
\* a release that unlocks and closes the handle but keeps self.fh
ReleaseFh_KeepsFh(i) ==
    IF fh[i] # NoHandle
    THEN /\ locked' = locked \ {fh[i]}
         /\ handleFile' = [handleFile EXCEPT ![fh[i]] = NoFile]
         /\ handleOwner' = [handleOwner EXCEPT ![fh[i]] = 0]
         /\ UNCHANGED fh
    ELSE UNCHANGED <<locked, handleFile, handleOwner, fh>>

\* a release that unlocks the handle and forgets it without closing it
ReleaseFh_NoClose(i) ==
    IF fh[i] # NoHandle
    THEN /\ locked' = locked \ {fh[i]}
         /\ fh' = [fh EXCEPT ![i] = NoHandle]
         /\ UNCHANGED <<handleFile, handleOwner>>
    ELSE UNCHANGED <<locked, handleFile, handleOwner, fh>>

\* utils.py:196-199
ReleaseFh(i) ==
    IF fh[i] # NoHandle
    THEN /\ locked' = locked \ {fh[i]}
         /\ handleFile' = [handleFile EXCEPT ![fh[i]] = NoFile]
         /\ handleOwner' = [handleOwner EXCEPT ![fh[i]] = 0]
         /\ fh' = [fh EXCEPT ![i] = NoHandle]
    ELSE UNCHANGED <<locked, handleFile, handleOwner, fh>>

LockRelease(i) ==
    /\ kind = "Lock"
    /\ pc[i] = "idle"
    /\ ReleaseFh(i)
    /\ result' = [result EXCEPT ![i] = "released"]
    /\ returned' = [returned EXCEPT ![i] = NoHandle]
    /\ attempts' = [attempts EXCEPT ![i] = 0]
    /\ sleeps' = [sleeps EXCEPT ![i] = 0]
    /\ UNCHANGED <<semVars, atomVars>>
    /\ UNCHANGED <<mode, truncate, flags, warned, inode, content, exited>>
    /\ UNCHANGED <<now, kind, cfgTimeout, cfgFail, pc, lfh, timeout_end,
                   exception, failL, zeroL, wake, acquire_count, balance>>

LockAcquire(i) ==
    /\ kind = "Lock"
    /\ \/ AcquireHeld(i)
       \/ \E timeout \in TimeoutArgs, fail \in FailArgs :
              AcquireOpen(i, timeout, fail)

Next ==
    \/ Tick
    \/ \E i \in Locks : LockAcquire(i)
    \/ \E i \in Locks : AcquireGetLock(i)
    \/ \E i \in Locks : AcquireFailFast(i)
    \/ \E i \in Locks : AcquireContended(i)
    \/ \E i \in Locks : AcquireWake(i)
    \/ \E i \in Locks : AcquireTimedOut(i)
    \/ \E i \in Locks : LockRelease(i)

Spec == Init /\ [][Next]_vars

\* ------------------------------------------- Lock with a 'w' mode
InitTrunc ==
    /\ InitOS
    /\ InitLocks("Lock", {MaxTimeout}, {FALSE})
    /\ InitSem({NoneT}, {Maximum})
    /\ InitExt({"a", "w"}, {"NB"}, LockPath)
    /\ InitAtomic

\* the holder appends to the file through the handle acquire returned
\* (tests.py:88-89)
HolderWrite(i) ==
    /\ pc[i] = "idle"
    /\ returned[i] # NoHandle
    /\ handleFile[returned[i]] = inode
    /\ content' = 1
    /\ UNCHANGED <<now, osVars, lockVars, semVars, atomVars>>
    /\ UNCHANGED <<mode, truncate, flags, warned, inode, returned, exited>>

\* acquire with the timeout of the instance, waiting or failing fast
TruncAcquire(i) ==
    /\ kind = "Lock"
    /\ \/ AcquireHeld(i)
       \/ \E fail \in {"True", "False"} : AcquireOpen(i, NoneT, fail)

NextTrunc ==
    \/ Tick
    \/ \E i \in Locks : TruncAcquire(i)
    \/ \E i \in Locks : AcquireGetLock(i)
    \/ \E i \in Locks : AcquireFailFast(i)
    \/ \E i \in Locks : AcquireContended(i)
    \/ \E i \in Locks : AcquireWake(i)
    \/ \E i \in Locks : AcquireTimedOut(i)
    \/ \E i \in Locks : LockRelease(i)
    \/ \E i \in Locks : HolderWrite(i)

SpecTrunc == InitTrunc /\ [][NextTrunc]_vars

\* ------------------------------------------- Lock with blocking flags
InitFlags ==
    /\ InitOS
    /\ InitLocks("Lock", {MaxTimeout}, {FALSE})
    /\ InitSem({NoneT}, {Maximum})
    /\ InitExt({"a"}, {"NB", "B"}, LockPath)
    /\ InitAtomic

\* utils.py:164-167 with blocking flags: portalocker.lock does not return
\* while another handle holds the lock of the file
AcquireBlocks(i) ==
    /\ pc[i] = "loop"
    /\ LoopCond(timeout_end[i], now)
    /\ ~CanLock(lfh[i])
    /\ flags[i] = "B"
    /\ attempts' = [attempts EXCEPT ![i] = @ + 1]
    /\ pc' = [pc EXCEPT ![i] = "blocked"]
    /\ UNCHANGED <<semVars, atomVars, extVars>>
    /\ UNCHANGED <<now, osVars, kind, cfgTimeout, cfgFail, fh, lfh,
                   timeout_end, exception, failL, zeroL, wake, sleeps,
                   result, acquire_count, balance>>

\* the blocked portalocker.lock returns with the lock, whatever the
\* deadline; utils.py:168, 188-192
AcquireUnblocked(i) ==
    /\ pc[i] = "blocked"
    /\ CanLock(lfh[i])
    /\ locked' = locked \cup {lfh[i]}
    /\ PrepareFh(i, lfh[i])
    /\ returned' = [returned EXCEPT ![i] = lfh[i]]
    /\ fh' = [fh EXCEPT ![i] = lfh[i]]
    /\ result' = [result EXCEPT ![i] = "fh"]
    /\ pc' = [pc EXCEPT ![i] = "idle"]
    /\ ClearLocals(i)
    /\ Returned(i)
    /\ Count(i, 1)
    /\ UNCHANGED <<semVars, atomVars>>
    /\ UNCHANGED <<mode, truncate, flags, warned, inode, exited>>
    /\ UNCHANGED <<now, handleFile, handleOwner, kind, cfgTimeout, cfgFail,
                   attempts, sleeps>>

\* acquire with the timeout of the instance or with one of its own
FlagsAcquire(i) ==
    /\ kind = "Lock"
    /\ \/ AcquireHeld(i)
       \/ \E timeout \in CfgTimeouts, fail \in {"None", "True"} :
              AcquireOpen(i, timeout, fail)

NextFlags ==
    \/ Tick
    \/ \E i \in Locks : FlagsAcquire(i)
    \/ \E i \in Locks : AcquireGetLock(i)
    \/ \E i \in Locks : AcquireFailFast(i)
    \/ \E i \in Locks : AcquireContended(i)
    \/ \E i \in Locks : AcquireWake(i)
    \/ \E i \in Locks : AcquireTimedOut(i)
    \/ \E i \in Locks : AcquireBlocks(i)
    \/ \E i \in Locks : AcquireUnblocked(i)
    \/ \E i \in Locks : LockRelease(i)

SpecFlags == InitFlags /\ [][NextFlags]_vars

\* ---------------------------------------------- TemporaryFileLock
\* TemporaryFileLock.__init__ (utils.py:263-270): mode 'w', fail_when_locked
\* by default; the lock file does not exist yet
InitTemp ==
    /\ InitOS
    /\ InitLocks("TemporaryFileLock", {DEFAULT_TIMEOUT}, {TRUE})
    /\ InitSem({NoneT}, {Maximum})
    /\ InitExt({"w"}, {"NB"}, NoFile)
    /\ InitAtomic

\* a release that leaves the lock file where it is
Unlink_Never == UNCHANGED <<inode, content>>

\* utils.py:274-275: the path names no file any more, whether it did or not
Unlink == inode' = NoFile /\ content' = 0

\* acquire of a live process, with the timeout and the fail_when_locked of
\* the instance
TempAcquire(i) ==
    /\ kind = "TemporaryFileLock"
    /\ ~exited[i]
    /\ \/ AcquireHeld(i)
       \/ AcquireOpen(i, NoneT, "None")

\* TemporaryFileLock.release (utils.py:272-275)
TempRelease(i) ==
    /\ kind = "TemporaryFileLock"
    /\ ~exited[i]
    /\ pc[i] = "idle"
    /\ ReleaseFh(i)
    /\ Unlink
    /\ result' = [result EXCEPT ![i] = "released"]
    /\ returned' = [returned EXCEPT ![i] = NoHandle]
    /\ attempts' = [attempts EXCEPT ![i] = 0]
    /\ sleeps' = [sleeps EXCEPT ![i] = 0]
    /\ UNCHANGED <<semVars, atomVars>>
    /\ UNCHANGED <<mode, truncate, flags, warned, exited>>
    /\ UNCHANGED <<now, kind, cfgTimeout, cfgFail, pc, lfh, timeout_end,
                   exception, failL, zeroL, wake, acquire_count, balance>>

\* the process of the caller terminates normally: the release registered
\* with atexit (utils.py:270) runs
ProcessExit(i) ==
    /\ kind = "TemporaryFileLock"
    /\ ~exited[i]
    /\ pc[i] = "idle"
    /\ ReleaseFh(i)
    /\ Unlink
    /\ exited' = [exited EXCEPT ![i] = TRUE]
    /\ UNCHANGED <<semVars, atomVars>>
    /\ UNCHANGED <<mode, truncate, flags, warned, returned>>
    /\ UNCHANGED <<now, kind, cfgTimeout, cfgFail, pc, lfh, timeout_end,
                   exception, failL, zeroL, wake, attempts, sleeps, result,
                   acquire_count, balance>>

\* with fail_when_locked an acquire ends at its first attempt, and the
\* default timeout is longer than the time the clock covers: the instances
\* never sleep and never reach their deadline
NextTemp ==
    \/ Tick
    \/ \E i \in Locks : TempAcquire(i)
    \/ \E i \in Locks : AcquireGetLock(i)
    \/ \E i \in Locks : AcquireFailFast(i)
    \/ \E i \in Locks : TempRelease(i)
    \/ \E i \in Locks : ProcessExit(i)

SpecTemp == InitTemp /\ [][NextTemp]_vars

\* --------------------------------------------------------- open_atomic
InitWriters ==
    /\ InitOS
    /\ InitLocks("Lock", {NoneT}, {FALSE})
    /\ InitSem({NoneT}, {Maximum})
    /\ InitExt({"a"}, {"NB"}, LockPath)
    /\ InitAtomic

\* what the body can write, one byte at a time
Bytes == {0, 1}

\* the scope ends with the exception exc, by whatever step it was raised
AtomicRaise(w, exc) ==
    /\ aresult' = [aresult EXCEPT ![w] = exc]
    /\ apc' = [apc EXCEPT ![w] = "idle"]

\* utils.py:44-56: the assertion, the temp file, the yield
AtomicEnter(w) ==
    /\ apc[w] = "idle"
    /\ atemp[w] = Absent
    /\ IF atarget[w] # Absent
       THEN /\ aresult' = [aresult EXCEPT ![w] = "AssertionError"]
            /\ UNCHANGED <<apc, awritten, atemp>>
       ELSE /\ atemp' = [atemp EXCEPT ![w] = <<>>]
            /\ awritten' = [awritten EXCEPT ![w] = <<>>]
            /\ apc' = [apc EXCEPT ![w] = "body"]
            /\ aresult' = [aresult EXCEPT ![w] = "running"]
    /\ UNCHANGED <<now, osVars, lockVars, semVars, extVars, atarget>>

\* the body of the with statement writes to temp_fh (utils.py:38-39)
BodyWrite(w, b) ==
    /\ apc[w] = "body"
    /\ Len(awritten[w]) < MaxLen
    /\ awritten' = [awritten EXCEPT ![w] = Append(@, b)]
    /\ UNCHANGED <<now, osVars, lockVars, semVars, extVars, apc, atemp,
                   atarget, aresult>>

\* the body raises: the exception is thrown into the generator at the yield
\* of utils.py:56, which has no handler around it
BodyFails(w) ==
    /\ apc[w] = "body"
    /\ AtomicRaise(w, "BodyError")
    /\ UNCHANGED <<now, osVars, lockVars, semVars, extVars, awritten, atemp,
                   atarget>>

\* the body ends normally, the generator goes on after the yield
BodyEnds(w) ==
    /\ apc[w] = "body"
    /\ apc' = [apc EXCEPT ![w] = "flush"]
    /\ UNCHANGED <<now, osVars, lockVars, semVars, extVars, awritten, atemp,
                   atarget, aresult>>

\* utils.py:57: temp_fh.flush() writes the buffer to the temp file, or
\* fails
AtomicFlush(w, ok) ==
    /\ apc[w] = "flush"
    /\ IF ok
       THEN /\ atemp' = [atemp EXCEPT ![w] = awritten[w]]
            /\ apc' = [apc EXCEPT ![w] = "fsync"]
            /\ UNCHANGED aresult
       ELSE /\ AtomicRaise(w, "OSError")
            /\ UNCHANGED atemp
    /\ UNCHANGED <<now, osVars, lockVars, semVars, extVars, awritten,
                   atarget>>

\* utils.py:58-59: os.fsync and temp_fh.close(), or the failure of one of
\* them
AtomicSyncClose(w, ok) ==
    /\ apc[w] = "fsync"
    /\ IF ok
       THEN /\ apc' = [apc EXCEPT ![w] = "rename"]
            /\ UNCHANGED aresult
       ELSE AtomicRaise(w, "OSError")
    /\ UNCHANGED <<now, osVars, lockVars, semVars, extVars, awritten, atemp,
                   atarget>>

\* utils.py:60-66: os.rename and, whether it failed or not, os.remove of
\* the temp name, whose own failure is swallowed
AtomicRename(w, ok) ==
    /\ apc[w] = "rename"
    /\ IF ok
       THEN /\ atarget' = [atarget EXCEPT ![w] = atemp[w]]
            /\ AtomicRaise(w, "ok")
       ELSE /\ AtomicRaise(w, "OSError")
            /\ UNCHANGED atarget
    /\ atemp' = [atemp EXCEPT ![w] = Absent]
    /\ UNCHANGED <<now, osVars, lockVars, semVars, extVars, awritten>>

\* the caller removes the file it has written (utils.py:41)
TargetRemoved(w) ==
    /\ apc[w] = "idle"
    /\ atarget[w] # Absent
    /\ atarget' = [atarget EXCEPT ![w] = Absent]
    /\ UNCHANGED <<now, osVars, lockVars, semVars, extVars, apc, awritten,
                   atemp, aresult>>

NextAtomic ==
    \/ \E w \in Writers : AtomicEnter(w)
    \/ \E w \in Writers, b \in Bytes : BodyWrite(w, b)
    \/ \E w \in Writers : BodyFails(w)
    \/ \E w \in Writers : BodyEnds(w)
    \/ \E w \in Writers, ok \in BOOLEAN : AtomicFlush(w, ok)
    \/ \E w \in Writers, ok \in BOOLEAN : AtomicSyncClose(w, ok)
    \/ \E w \in Writers, ok \in BOOLEAN : AtomicRename(w, ok)
    \/ \E w \in Writers : TargetRemoved(w)

SpecAtomic == InitWriters /\ [][NextAtomic]_vars

\* --------------------------------------- Lock.acquire and fatal errors
\* the instances have a 'w' mode, so that _prepare_fh has work to do
InitFatal ==
    /\ InitOS
    /\ InitLocks("Lock", {MaxTimeout}, {FALSE})
    /\ InitSem({NoneT}, {Maximum})
    /\ InitExt({"w"}, {"NB"}, LockPath)
    /\ InitAtomic

\* utils.py:152: open() raises, acquire has nothing to clean up
AcquireOpenFails(i) ==
    /\ pc[i] = "idle"
    /\ fh[i] = NoHandle
    /\ result' = [result EXCEPT ![i] = "OSError"]
    /\ attempts' = [attempts EXCEPT ![i] = 0]
    /\ sleeps' = [sleeps EXCEPT ![i] = 0]
    /\ returned' = [returned EXCEPT ![i] = NoHandle]
    /\ UNCHANGED <<semVars, atomVars>>
    /\ UNCHANGED <<mode, truncate, flags, warned, inode, content, exited>>
    /\ UNCHANGED <<now, osVars, kind, cfgTimeout, cfgFail, fh, pc, lfh,
                   timeout_end, exception, failL, zeroL, wake,
                   acquire_count, balance>>

\* utils.py:165-169: portalocker.lock raises an error that is not a
\* LockException; no except clause matches, the error leaves acquire and
\* try_close is not called
AcquireLockFatal(i) ==
    /\ pc[i] = "loop"
    /\ LoopCond(timeout_end[i], now)
    /\ result' = [result EXCEPT ![i] = "OSError"]
    /\ pc' = [pc EXCEPT ![i] = "idle"]
    /\ attempts' = [attempts EXCEPT ![i] = @ + 1]
    /\ ClearLocals(i)
    /\ UNCHANGED <<semVars, atomVars, extVars>>
    /\ UNCHANGED <<now, osVars, kind, cfgTimeout, cfgFail, fh, sleeps,
                   acquire_count, balance>>

\* utils.py:167-168, 189, 220-222: the lock is taken, then seek or truncate
\* raises inside _prepare_fh; the error leaves acquire before self.fh is
\* assigned
AcquireTruncateFails(i) ==
    /\ pc[i] = "loop"
    /\ LoopCond(timeout_end[i], now)
    /\ CanLock(lfh[i])
    /\ truncate[i]
    /\ locked' = locked \cup {lfh[i]}
    /\ result' = [result EXCEPT ![i] = "OSError"]
    /\ pc' = [pc EXCEPT ![i] = "idle"]
    /\ attempts' = [attempts EXCEPT ![i] = @ + 1]
    /\ ClearLocals(i)
    /\ UNCHANGED <<semVars, atomVars, extVars>>
    /\ UNCHANGED <<now, handleFile, handleOwner, kind, cfgTimeout, cfgFail,
                   fh, sleeps, acquire_count, balance>>

\* a file object that nothing refers to any more is closed when the
\* interpreter collects it, at a time the program does not control
Finalize(h) ==
    /\ h \in OpenHandles
    /\ \A i \in Locks : fh[i] # h /\ lfh[i] # h
    /\ TryClose(h)
    /\ UNCHANGED <<semVars, atomVars, extVars>>
    /\ UNCHANGED <<now, lockVars>>

FatalAcquire(i) ==
    /\ kind = "Lock"
    /\ \/ AcquireHeld(i)
       \/ \E fail \in {"None", "True"} : AcquireOpen(i, NoneT, fail)
       \/ AcquireOpenFails(i)

NextFatal ==
    \/ Tick
    \/ \E i \in Locks : FatalAcquire(i)
    \/ \E i \in Locks : AcquireGetLock(i)
    \/ \E i \in Locks : AcquireFailFast(i)
    \/ \E i \in Locks : AcquireContended(i)
    \/ \E i \in Locks : AcquireWake(i)
    \/ \E i \in Locks : AcquireTimedOut(i)
    \/ \E i \in Locks : AcquireLockFatal(i)
    \/ \E i \in Locks : AcquireTruncateFails(i)
    \/ \E h \in Handles : Finalize(h)
    \/ \E i \in Locks : LockRelease(i)

SpecFatal == InitFatal /\ [][NextFatal]_vars

\* -------------------------------------------------------------- RLock
InitRLock ==
    /\ InitOS
    /\ InitLocks("RLock", {MaxTimeout}, {FALSE})
    /\ InitSem({NoneT}, {Maximum})
    /\ InitExt({"a"}, {"NB"}, LockPath)
    /\ InitAtomic

\* utils.py:241-249
RLockAcquire(i) ==
    /\ kind = "RLock"
    /\ pc[i] = "idle"
    /\ acquire_count[i] < MaxDepth
    /\ IF acquire_count[i] >= 1
       THEN /\ Returned(i)
            /\ Count(i, 1)
            /\ result' = [result EXCEPT ![i] = "fh"]
            /\ returned' = [returned EXCEPT ![i] = fh[i]]
            /\ UNCHANGED <<mode, truncate, flags, warned, inode, content,
                           exited>>
            /\ attempts' = [attempts EXCEPT ![i] = 0]
            /\ sleeps' = [sleeps EXCEPT ![i] = 0]
            /\ UNCHANGED <<now, osVars, kind, cfgTimeout, cfgFail, fh, pc,
                           lfh, timeout_end, exception, failL, zeroL, wake>>
            /\ UNCHANGED <<semVars, atomVars>>
       ELSE \/ AcquireHeld(i)
            \/ \E timeout \in TimeoutArgs, fail \in FailArgs :
                   AcquireOpen(i, timeout, fail)

\* utils.py:251-258
RLockRelease(i) ==
    /\ kind = "RLock"
    /\ pc[i] = "idle"
    /\ IF acquire_count[i] = 0
       THEN /\ result' = [result EXCEPT ![i] = "UsageError"]
            /\ UNCHANGED <<osVars, fh, acquire_count, balance>>
       ELSE /\ IF acquire_count[i] = 1
               THEN ReleaseFh(i)
               ELSE UNCHANGED <<locked, handleFile, handleOwner, fh>>
            /\ acquire_count' = [acquire_count EXCEPT ![i] = @ - 1]
            /\ Count(i, -1)
            /\ result' = [result EXCEPT ![i] = "released"]
    /\ returned' = [returned EXCEPT ![i] = NoHandle]
    /\ attempts' = [attempts EXCEPT ![i] = 0]
    /\ sleeps' = [sleeps EXCEPT ![i] = 0]
    /\ UNCHANGED <<semVars, atomVars>>
    /\ UNCHANGED <<mode, truncate, flags, warned, inode, content, exited>>
    /\ UNCHANGED <<now, kind, cfgTimeout, cfgFail, pc, lfh, timeout_end,
                   exception, failL, zeroL, wake>>

NextRLock ==
    \/ Tick
    \/ \E i \in Locks : RLockAcquire(i)
    \/ \E i \in Locks : AcquireGetLock(i)
    \/ \E i \in Locks : AcquireFailFast(i)
    \/ \E i \in Locks : AcquireContended(i)
    \/ \E i \in Locks : AcquireWake(i)
    \/ \E i \in Locks : AcquireTimedOut(i)
    \/ \E i \in Locks : RLockRelease(i)

SpecRLock == InitRLock /\ [][NextRLock]_vars

\* --------------------------------------------------- BoundedSemaphore
\* a candidate list that is one file short
GetFilenames_Short == [n \in 1..(maximum - 1) |-> n]

\* utils.py:306-307: the candidate files, in the order of their numbers
GetFilenames == [n \in 1..maximum |-> n]

\* the lock files of the semaphore that no handle holds a lock on
FreeFiles ==
    {f \in 1..maximum : \A g \in locked : handleFile[g] # f}

\* an acquire without the assertion of utils.py:322
SemAcquire_NoAssert(p, timeout) ==
    /\ spc[p] = "idle"
    /\ stimeout' = [stimeout EXCEPT ![p] =
           ResolveTimeout(timeout, semTimeout[p])]
    /\ spc' = [spc EXCEPT ![p] = "first"]
    /\ sk' = [sk EXCEPT ![p] = 1]
    /\ spasses' = [spasses EXCEPT ![p] = 1]
    /\ ssleeps' = [ssleeps EXCEPT ![p] = 0]
    /\ sresult' = [sresult EXCEPT ![p] = "running"]
    /\ UNCHANGED <<now, osVars, lockVars, extVars, atomVars,
                   semTimeout, maximum, semLock, semFh,
                   stimeout_end, swake, everReleased, passFree>>

\* utils.py:320-332: the assertion, the arguments, the first try_lock
SemAcquire(p, timeout) ==
    /\ spc[p] = "idle"
    /\ IF semLock[p] # NoLock
       THEN /\ sresult' = [sresult EXCEPT ![p] = "AssertionError"]
            /\ UNCHANGED <<spc, sk, stimeout, spasses, ssleeps>>
       ELSE /\ stimeout' = [stimeout EXCEPT ![p] =
                   ResolveTimeout(timeout, semTimeout[p])]
            /\ spc' = [spc EXCEPT ![p] = "first"]
            /\ sk' = [sk EXCEPT ![p] = 1]
            /\ spasses' = [spasses EXCEPT ![p] = 1]
            /\ ssleeps' = [ssleeps EXCEPT ![p] = 0]
            /\ sresult' = [sresult EXCEPT ![p] = "running"]
    /\ UNCHANGED <<now, osVars, lockVars, extVars, atomVars,
                   semTimeout, maximum, semLock, semFh,
                   stimeout_end, swake, everReleased, passFree>>

\* utils.py:351-353 for the candidate sk: self.lock = Lock(filename,
\* fail_when_locked=True) and self.lock.acquire().  The Lock has the default
\* timeout, so the loop of Lock.acquire is entered (utils.py:162-164) and
\* the acquire ends at its first attempt: with the lock, or with
\* AlreadyLocked and its handle closed again.
InnerLoopEntered ==
    LoopCond(now + ResolveTimeout(NoneT, DEFAULT_TIMEOUT), now)

Candidate(p) == GetFilenames[sk[p]]

Trying(p) ==
    /\ spc[p] \in {"first", "pass"}
    /\ sk[p] \in DOMAIN GetFilenames
    /\ Handles \ OpenHandles # {}
    /\ InnerLoopEntered

\* utils.py:350: the for loop of try_lock is exhausted, try_lock returns
\* None
Exhausted(p) == sk[p] \notin DOMAIN GetFilenames

\* utils.py:353-354, 334-335, 342-343: the candidate is locked, try_lock
\* returns True and acquire returns self.lock
SemTryLocked(p) ==
    /\ Trying(p)
    /\ CanLockFile(Candidate(p), NewHandle)
    /\ handleFile' = [handleFile EXCEPT ![NewHandle] = Candidate(p)]
    /\ handleOwner' = [handleOwner EXCEPT ![NewHandle] = p]
    /\ locked' = locked \cup {NewHandle}
    /\ semLock' = [semLock EXCEPT ![p] = Candidate(p)]
    /\ semFh' = [semFh EXCEPT ![p] = NewHandle]
    /\ spc' = [spc EXCEPT ![p] = "idle"]
    /\ sk' = [sk EXCEPT ![p] = 0]
    /\ stimeout' = [stimeout EXCEPT ![p] = 0]
    /\ stimeout_end' = [stimeout_end EXCEPT ![p] = 0]
    /\ sresult' = [sresult EXCEPT ![p] = "lock"]
    /\ passFree' = [q \in Participants |-> FALSE]
    /\ UNCHANGED <<now, lockVars, extVars, atomVars,
                   semTimeout, maximum, swake, spasses, ssleeps,
                   everReleased>>

\* utils.py:355-356, 350: the candidate is locked by someone else, on to
\* the next candidate
SemTryNext(p) ==
    /\ Trying(p)
    /\ ~CanLockFile(Candidate(p), NewHandle)
    /\ semLock' = [semLock EXCEPT ![p] = Candidate(p)]
    /\ semFh' = [semFh EXCEPT ![p] = NoHandle]
    /\ sk' = [sk EXCEPT ![p] = @ + 1]
    /\ UNCHANGED <<now, osVars, lockVars, extVars, atomVars,
                   semTimeout, maximum, spc, stimeout,
                   stimeout_end, swake, spasses, ssleeps, sresult,
                   everReleased, passFree>>

\* utils.py:334-340: the first try_lock found every candidate locked
SemFirstFull(p) ==
    /\ spc[p] = "first"
    /\ Exhausted(p)
    /\ sk' = [sk EXCEPT ![p] = 0]
    /\ IF stimeout[p] = 0
       THEN /\ sresult' = [sresult EXCEPT ![p] = "AlreadyLocked"]
            /\ spc' = [spc EXCEPT ![p] = "idle"]
            /\ UNCHANGED stimeout_end
       ELSE /\ stimeout_end' = [stimeout_end EXCEPT ![p] = now + stimeout[p]]
            /\ spc' = [spc EXCEPT ![p] = "loop"]
            /\ UNCHANGED sresult
    /\ UNCHANGED <<now, osVars, lockVars, extVars, atomVars,
                   semTimeout, maximum, semLock, semFh,
                   stimeout, swake, spasses, ssleeps, everReleased, passFree>>

\* utils.py:341-342: the deadline has not passed, one more try_lock
SemLoopPass(p) ==
    /\ spc[p] = "loop"
    /\ LoopCond(stimeout_end[p], now)
    /\ spc' = [spc EXCEPT ![p] = "pass"]
    /\ sk' = [sk EXCEPT ![p] = 1]
    /\ spasses' = [spasses EXCEPT ![p] = @ + 1]
    /\ passFree' = [passFree EXCEPT ![p] = FreeFiles # {}]
    /\ UNCHANGED <<now, osVars, lockVars, extVars, atomVars,
                   semTimeout, maximum, semLock, semFh,
                   stimeout, stimeout_end, swake, ssleeps, sresult,
                   everReleased>>

\* utils.py:342-345: this try_lock found every candidate locked too, sleep
SemPassFull(p) ==
    /\ spc[p] = "pass"
    /\ Exhausted(p)
    /\ sk' = [sk EXCEPT ![p] = 0]
    /\ ssleeps' = [ssleeps EXCEPT ![p] = @ + 1]
    /\ swake' = [swake EXCEPT ![p] = now + CheckInterval]
    /\ spc' = [spc EXCEPT ![p] = "sleep"]
    /\ passFree' = [passFree EXCEPT ![p] = FALSE]
    /\ UNCHANGED <<now, osVars, lockVars, extVars, atomVars,
                   semTimeout, maximum, semLock, semFh,
                   stimeout, stimeout_end, spasses, sresult, everReleased>>

\* time.sleep(check_interval) returns (utils.py:345)
SemWake(p) ==
    /\ spc[p] = "sleep"
    /\ now >= swake[p]
    /\ spc' = [spc EXCEPT ![p] = "loop"]
    /\ swake' = [swake EXCEPT ![p] = 0]
    /\ UNCHANGED <<now, osVars, lockVars, extVars, atomVars,
                   semTimeout, maximum, semLock, semFh, sk,
                   stimeout, stimeout_end, spasses, ssleeps, sresult,
                   everReleased, passFree>>

\* a polling loop that ends with the generic LockException of Lock.acquire
SemGiveUp_Generic(p) ==
    /\ spc[p] = "loop"
    /\ ~LoopCond(stimeout_end[p], now)
    /\ sresult' = [sresult EXCEPT ![p] = "LockException"]
    /\ spc' = [spc EXCEPT ![p] = "idle"]
    /\ stimeout' = [stimeout EXCEPT ![p] = 0]
    /\ stimeout_end' = [stimeout_end EXCEPT ![p] = 0]
    /\ UNCHANGED <<now, osVars, lockVars, extVars, atomVars,
                   semTimeout, maximum, semLock, semFh, sk,
                   swake, spasses, ssleeps, everReleased, passFree>>

\* utils.py:341, 347: the deadline has passed
SemGiveUp(p) ==
    /\ spc[p] = "loop"
    /\ ~LoopCond(stimeout_end[p], now)
    /\ sresult' = [sresult EXCEPT ![p] = "AlreadyLocked"]
    /\ spc' = [spc EXCEPT ![p] = "idle"]
    /\ stimeout' = [stimeout EXCEPT ![p] = 0]
    /\ stimeout_end' = [stimeout_end EXCEPT ![p] = 0]
    /\ UNCHANGED <<now, osVars, lockVars, extVars, atomVars,
                   semTimeout, maximum, semLock, semFh, sk,
                   swake, spasses, ssleeps, everReleased, passFree>>

\* utils.py:358-360: self.lock.release() is Lock.release (utils.py:196-199)
\* and fails on None
SemRelease(p) ==
    /\ spc[p] = "idle"
    /\ IF semLock[p] = NoLock
       THEN /\ sresult' = [sresult EXCEPT ![p] = "AttributeError"]
            /\ UNCHANGED <<osVars, semLock, semFh, everReleased>>
       ELSE /\ IF semFh[p] # NoHandle
               THEN /\ locked' = locked \ {semFh[p]}
                    /\ handleFile' = [handleFile EXCEPT ![semFh[p]] = NoFile]
                    /\ handleOwner' = [handleOwner EXCEPT ![semFh[p]] = 0]
               ELSE UNCHANGED osVars
            /\ semFh' = [semFh EXCEPT ![p] = NoHandle]
            /\ semLock' = [semLock EXCEPT ![p] = NoLock]
            /\ everReleased' = TRUE
            /\ sresult' = [sresult EXCEPT ![p] = "released"]
    /\ spasses' = [spasses EXCEPT ![p] = 0]
    /\ ssleeps' = [ssleeps EXCEPT ![p] = 0]
    /\ UNCHANGED <<now, lockVars, extVars, atomVars,
                   semTimeout, maximum, spc, sk, stimeout,
                   stimeout_end, swake, passFree>>

InitSemaphore ==
    /\ InitOS
    /\ InitLocks("Lock", {NoneT}, {FALSE})
    /\ InitSem({NoneT}, 1..Maximum)
    /\ InitExt({"a"}, {"NB"}, LockPath)
    /\ InitAtomic

NextSem ==
    \/ Tick
    \/ \E p \in Participants, timeout \in TimeoutArgs : SemAcquire(p, timeout)
    \/ \E p \in Participants : SemTryLocked(p)
    \/ \E p \in Participants : SemTryNext(p)
    \/ \E p \in Participants : SemFirstFull(p)
    \/ \E p \in Participants : SemLoopPass(p)
    \/ \E p \in Participants : SemPassFull(p)
    \/ \E p \in Participants : SemWake(p)
    \/ \E p \in Participants : SemGiveUp(p)
    \/ \E p \in Participants : SemRelease(p)

SpecSem == InitSemaphore /\ [][NextSem]_vars

\* ===================================================================
\* Properties of Lock (specification Spec)
\* ===================================================================
HandlesOf(i) == {h \in Handles : handleOwner[h] = i}

Holders == {i \in Locks : fh[i] # NoHandle}

\* the caller takes the lock in this step
TakesLock(i) == fh[i] = NoHandle /\ fh'[i] # NoHandle /\ fh'[i] \in locked'

\* C1: among independent Lock instances on one path, with exclusive
\* non-blocking flags and under any interleaving of acquire and release, at
\* most one instance has fh set, and an instance has fh set only while the
\* handle is open on the path, is its own and holds the advisory lock.
C1_MutualExclusion ==
    /\ Cardinality(Holders) <= 1
    /\ \A i \in Locks : fh[i] # NoHandle =>
           /\ handleFile[fh[i]] = LockPath
           /\ handleOwner[fh[i]] = i
           /\ fh[i] \in locked

\* one instance holds the lock while another one has waited for it and
\* has given up
C1_Witness ==
    \E i, j \in Locks :
        /\ i # j
        /\ fh[i] # NoHandle
        /\ result[j] = "LockException"
        /\ sleeps[j] >= 1

\* C2: an acquire with fail_when_locked set that finds the path locked by
\* another instance ends with AlreadyLocked after its first attempt and
\* without a sleep, never with the generic LockException, whatever the
\* timeout.
C2_FailFastAlreadyLocked ==
    [][\A i \in Locks :
          (pc[i] = "loop" /\ pc'[i] = "idle" /\ failL[i] /\ ~CanLock(lfh[i]))
          => /\ result'[i] = "AlreadyLocked"
             /\ attempts'[i] = 1
             /\ sleeps'[i] = 0]_vars

\* C3: an acquire without fail_when_locked that stays contended until its
\* deadline ends with LockException, never AlreadyLocked, and every
\* LockException of acquire carries the last contention error it observed.
C3_TimeoutCarriesCause ==
    [][\A i \in Locks :
          /\ (pc[i] = "loop" /\ result'[i] = "AlreadyLocked") => failL[i]
          /\ (pc[i] = "loop" /\ result'[i] = "LockException")
             => (exception[i] # NoExc /\ exception[i] = attempts[i])]_vars

\* C4: after an acquire has failed by timeout or by fail-fast contention,
\* the instance owns no open handle and no advisory lock, its fh is unset,
\* and acquire can be called on it again.
C4_FailureHoldsNothing ==
    \A i \in Locks :
        result[i] \in {"AlreadyLocked", "LockException"} =>
            /\ HandlesOf(i) = {}
            /\ \A h \in locked : handleOwner[h] # i
            /\ fh[i] = NoHandle
            /\ lfh[i] = NoHandle
            /\ pc[i] = "idle"

\* an acquire that failed in the middle of its retry loop, after two
\* contended attempts and two sleeps
C4_Witness ==
    \E i \in Locks :
        /\ result[i] = "LockException"
        /\ attempts[i] >= 2
        /\ sleeps[i] >= 2

\* C5: with an effective timeout of zero, acquire makes exactly one attempt
\* of the lock primitive and never sleeps, and returns the locked handle
\* when the path is not locked by anyone else.
C5_ZeroTimeoutOneAttempt ==
    [][\A i \in Locks :
          (pc[i] = "loop" /\ pc'[i] = "idle" /\ zeroL[i])
          => /\ attempts'[i] = 1
             /\ sleeps'[i] = 0
             /\ CanLock(lfh[i]) => result'[i] = "fh"]_vars

\* the first acquire call of an instance since it took the lock
HeldAcquireStep(i) ==
    /\ pc[i] = "idle"
    /\ fh[i] # NoHandle
    /\ result'[i] = "fh"
    /\ attempts'[i] # attempts[i]

\* a release call of an instance that holds nothing, after another call
UnlockedReleaseStep(i) ==
    /\ pc[i] = "idle"
    /\ fh[i] = NoHandle
    /\ result'[i] = "released"
    /\ result[i] # "released"

\* C12: an acquire on an instance that holds the lock returns the handle
\* it holds, opens no file and makes no attempt of the lock primitive, a
\* release on an instance that holds nothing returns normally, and neither
\* changes the handles, the locks, the file or the instance; a repetition
\* of either call changes nothing at all.
C12_HeldAcquireUnlockedReleaseNoOp ==
    [][\A i \in Locks :
          /\ (pc[i] = "idle" /\ fh[i] # NoHandle /\ result'[i] = "fh")
             => /\ pc'[i] = "idle"
                /\ fh'[i] = fh[i]
                /\ returned'[i] = fh[i]
                /\ HandlesOf(i)' = HandlesOf(i)
                /\ fh[i] \in locked'
          /\ HeldAcquireStep(i)
             => /\ attempts'[i] = 0
                /\ UNCHANGED <<osVars, inode, content>>
          /\ (pc[i] = "idle" /\ fh[i] = NoHandle /\ pc'[i] = "idle")
             => /\ fh'[i] = NoHandle
                /\ HandlesOf(i)' = {}
                /\ result'[i] \in {result[i], "released"}
          /\ UnlockedReleaseStep(i)
             => UNCHANGED <<osVars, inode, content>>]_vars

\* an instance has called acquire again while it held the lock, and got
\* the handle it holds; another instance, refused meanwhile, has called
\* release
C12_Witness ==
    \E i, j \in Locks :
        /\ i # j
        /\ fh[i] # NoHandle
        /\ result[i] = "fh"
        /\ attempts[i] = 0
        /\ returned[i] = fh[i]
        /\ result[j] = "released"

\* the caller releases the lock it holds in this step
ReleasesLock(i) == fh[i] # NoHandle /\ fh'[i] = NoHandle

SemHolders == {p \in Participants : semFh[p] # NoHandle}

\* the caller has finished the first try_lock of an acquire
FirstPassDone(p) == spasses[p] >= 1 /\ spc[p] # "first"

\* C7: the participants that hold a permit at the same time are never more
\* than maximum, each participant has at most one open and locked candidate
\* file, its held permit is a locked handle of its own and no candidate is
\* locked but as the permit of a participant; and when all participants
\* (more than maximum) acquire with all permits free and none releases,
\* exactly maximum of them succeed, each on its first pass.
C7_AtMostMaximum ==
    /\ Cardinality(SemHolders) <= maximum
    /\ \A h \in locked : \E p \in Participants : semFh[p] = h
    /\ \A p \in Participants :
           /\ Cardinality({h \in Handles : handleOwner[h] = p}) <= 1
           /\ semFh[p] # NoHandle =>
                  /\ semFh[p] \in locked
                  /\ handleOwner[semFh[p]] = p
                  /\ handleFile[semFh[p]] = semLock[p]
    /\ \A p, q \in SemHolders : p # q => semLock[p] # semLock[q]
    /\ (~everReleased /\ \A p \in Participants : FirstPassDone(p)) =>
           /\ Cardinality(SemHolders) =
                  (IF NumParticipants > maximum THEN maximum
                   ELSE NumParticipants)
           /\ \A p \in SemHolders : spasses[p] = 1

\* every participant has acquired with all permits free and nobody has
\* released: maximum hold a permit, another one was refused
C7_Witness ==
    /\ ~everReleased
    /\ \A p \in Participants : FirstPassDone(p)
    /\ Cardinality(SemHolders) = maximum
    /\ \E p \in Participants : sresult[p] = "AlreadyLocked"

\* C8: a pass of a polling waiter that begins, before the deadline, while a
\* candidate is unlocked, and during which no other participant locks a
\* candidate, ends with the waiter holding a permit.
C8_WaiterGetsFreedSlot ==
    [][\A p \in Participants :
          (spc[p] = "pass" /\ passFree[p] /\ spc'[p] # "pass")
          => /\ sresult'[p] = "lock"
             /\ semFh'[p] \in locked']_vars

\* a waiter that slept while the semaphore was full holds a permit after a
\* holder has released
C8_Witness ==
    \E p \in Participants :
        /\ sresult[p] = "lock"
        /\ semFh[p] \in locked
        /\ ssleeps[p] >= 1
        /\ everReleased

\* C9: an acquire that fails ends with AlreadyLocked; with a timeout of
\* zero (or absent) it has made one pass and has not slept; with a positive
\* timeout its deadline has passed and it has slept once after each pass of
\* its polling loop.
C9_SemaphoreFull ==
    [][\A p \in Participants :
          (spc[p] # "idle" /\ spc'[p] = "idle" /\ semFh'[p] = NoHandle)
          => /\ sresult'[p] = "AlreadyLocked"
             /\ stimeout[p] = 0 => (spasses[p] = 1 /\ ssleeps[p] = 0)
             /\ stimeout[p] > 0 =>
                    /\ now >= stimeout_end[p]
                    /\ ssleeps[p] = spasses[p] - 1]_vars

\* an acquire with a positive timeout was refused after two polling passes
C9_Witness ==
    \E p \in Participants :
        /\ sresult[p] = "AlreadyLocked"
        /\ spasses[p] >= 3
        /\ ssleeps[p] >= 2
        /\ Cardinality(SemHolders) = maximum

\* C10: an acquire on an instance that holds a permit fails and leaves the
\* permit as it is, and a release returns normally only on an instance that
\* holds a permit.
C10_MisuseIsAnError ==
    [][\A p \in Participants :
          /\ (spc[p] = "idle" /\ spc'[p] # "idle") => semFh[p] = NoHandle
          /\ (semFh[p] # NoHandle /\ sresult'[p] = "AssertionError")
             => (semFh'[p] = semFh[p] /\ semLock'[p] = semLock[p]
                 /\ semFh[p] \in locked')
          /\ (sresult'[p] = "released"
              /\ <<sresult[p], semLock[p]>> # <<sresult'[p], semLock'[p]>>)
             => semFh[p] # NoHandle]_vars

C14_BlockingTimeoutWarns ==
    \A i \in Locks : (flags[i] = "B" /\ result[i] # "none") => warned[i]

\* ===================================================================
\* Properties of TemporaryFileLock (specification SpecTemp)
\* ===================================================================
\* the caller's release returns, or its process terminates, in this step
TempReleaseStep(i) ==
    \/ pc[i] = "idle" /\ result'[i] = "released" /\ result[i] # "released"
    \/ exited'[i] /\ ~exited[i]

\* C15: a release of a TemporaryFileLock, called by the caller or run at
\* the normal termination of its process, returns normally whether the
\* lock file is present or not, leaves the instance without handle and
\* without lock, with the handle it held closed, and leaves the path
\* naming no file; a terminated process holds nothing.
C15_ReleaseDeletesFile ==
    [][\A i \in Locks :
          /\ TempReleaseStep(i)
             => /\ fh'[i] = NoHandle
                /\ HandlesOf(i)' = {}
                /\ fh[i] # NoHandle =>
                       (handleFile'[fh[i]] = NoFile /\ fh[i] \notin locked')
                /\ inode' = NoFile
                /\ result'[i] \in {"released", result[i]}
                /\ pc'[i] = "idle"
          /\ exited'[i] => (fh'[i] = NoHandle /\ HandlesOf(i)' = {})]_vars

\* a process has terminated after a successful acquire that it never
\* released: it holds nothing and the lock file is gone
C15_Witness ==
    \E i \in Locks :
        /\ exited[i]
        /\ result[i] = "fh"
        /\ fh[i] = NoHandle
        /\ HandlesOf(i) = {}
        /\ locked = {}
        /\ inode = NoFile

\* C17: among TemporaryFileLock instances of independent processes on one
\* path, under any interleaving of acquire, release and process
\* termination, at most one instance holds the lock.
C17_EphemeralMutualExclusion ==
    Cardinality({i \in Locks : fh[i] # NoHandle /\ fh[i] \in locked}) <= 1

\* ===================================================================
\* Properties of open_atomic (specification SpecAtomic)
\* ===================================================================
\* C16: when an open_atomic scope ends, normally or by the failure of a
\* step after the creation of the temp file, no temp file is left; after a
\* normal end the target holds exactly what the body wrote, after a failure
\* the target does not exist.
C16_NoTempArtifact ==
    [][\A w \in Writers :
          (apc[w] # "idle" /\ apc'[w] = "idle")
          => /\ atemp'[w] = Absent
             /\ aresult'[w] = "ok" => atarget'[w] = awritten[w]
             /\ aresult'[w] # "ok" => atarget'[w] = Absent]_vars

\* ===================================================================
\* More properties of BoundedSemaphore (specification SpecSem)
\* ===================================================================
\* C18: between its calls, the held-permit field of an instance is set only
\* while the instance holds a locked candidate file, so that an instance
\* whose acquire has failed is not holding.
C18_PermitFieldOnlyWhileHolding ==
    \A p \in Participants :
        (spc[p] = "idle" /\ semLock[p] # NoLock) =>
            /\ semFh[p] # NoHandle
            /\ semFh[p] \in locked
            /\ handleFile[semFh[p]] = semLock[p]

\* C20: the candidates are scanned in an order that is not fixed: a pass
\* that starts when all candidate files are free can take any of them.
C20_AnySlotWhenAllFree ==
    \A p \in Participants :
        (Trying(p) /\ sk[p] = 1 /\ FreeFiles = 1..maximum) =>
            \A f \in 1..maximum :
                ENABLED (SemTryLocked(p) /\ semLock'[p] = f)

\* ===================================================================
\* Properties of Lock.acquire under fatal errors (specification SpecFatal)
\* ===================================================================
\* C19: when an acquire has ended with an error of open, of the lock
\* primitive or of truncate that is not contention, the instance is idle
\* with fh unset, no handle it opened is still open and none holds a lock.
C19_FatalHoldsNothing ==
    \A i \in Locks :
        result[i] = "OSError" =>
            /\ pc[i] = "idle"
            /\ fh[i] = NoHandle
            /\ HandlesOf(i) = {}
            /\ \A h \in locked : handleOwner[h] # i
====
